---- MODULE Spec2Model ----
(***************************************************************************)
(* GhostType: push-to-talk dictation pipeline.                             *)
(*                                                                         *)
(* Contexts: the key-event thread (InputHook._on_press / _on_release and   *)
(* the Controller callbacks they run), the capture callback thread         *)
(* (AudioCapture._audio_callback), the worker thread(s)                    *)
(* (Controller._worker_loop), the lifecycle caller (Controller.start /     *)
(* Controller.stop) and the reader (Controller.get_text).                  *)
(***************************************************************************)
EXTENDS Integers, Sequences, FiniteSets, TLC

(* ------------------------------ bounds -------------------------------- *)

\* Stand-in for queue.Queue(maxsize=1000), the frame queue's capacity.
Cf == 2

\* Stand-in for queue.Queue(maxsize=100), the text queue's capacity.
Ct == 1

\* Frames the capture device delivers in one run of Spec.
MaxFrames == 3

\* Frames the capture device delivers in one run of SpecCapture.
OverflowFrames == Cf + 5

\* Recording sessions (accepted press-edges) in one run of Spec.
MaxSessions == 1

\* Recording sessions in one run of SpecHook and of SpecCapture.
HookSessions == MaxSessions + 2

\* Worker threads that can ever be created.
MaxWorkers == 2

\* Calls of Controller.stop() in one run (main.py: signal handler, finally).
MaxStops == 1

(* ------------------------------ values -------------------------------- *)

None == "None"

\* The keys the key-event source can report.
Keys == {"ctrl_l", "ctrl_r", "alt_l", "alt_r", "x"}

\* The keys the key-event source reports in the runs of Spec.
SpecKeys == {"ctrl_l"}

\* 'ctrl+alt' after lower() and split('+').
DefaultHotkey == <<"ctrl", "alt">>

Workers == 1..MaxWorkers

NoFrame == [n |-> 0, s |-> 0]

\* The empty string a recognition step returns when it has no text.
NoText == <<"", 0>>

\* get_text's None.
NoneText == <<"None", 0>>

ProcessOutcomes == {"partial", "final_empty", "final_text", "error"}

FinalizeOutcomes == {"text", "empty", "error"}

VARIABLES
    \* InputHook
    hotkey, hotkey_keys, current_keys, listener,
    \* key-event thread: position, finalize's result awaiting the put,
    \* and the callback the last key handler invoked
    hookpc, final_text, lastFired, pressedSince,
    \* Controller
    is_recording, audio_queue, text_queue, stop_event, worker_thread,
    \* AudioCapture
    stream, audio_rec,
    \* VoskEngine: number of times the recognizer object was replaced
    resets,
    \* worker threads: position, frame in hand, text awaiting the put
    wpc, whand, wtext,
    \* lifecycle caller and reader
    life, stops, pullpc,
    \* history (late: the workers started when the stop signal was set)
    sessions, delivered, offered, drops, arrived, processed, texts_in,
    pulled, lastPull, afterStop, late, finals

hookVars == <<hotkey, hotkey_keys, current_keys, listener, hookpc,
              final_text, lastFired, pressedSince>>
ctrlVars == <<is_recording, audio_queue, text_queue, stop_event,
              worker_thread>>
audioVars == <<stream, audio_rec>>
workerVars == <<wpc, whand, wtext>>
callerVars == <<life, stops, pullpc>>
histVars == <<sessions, delivered, offered, drops, arrived, processed,
              texts_in, pulled, lastPull, afterStop, late, finals>>
vars == <<hookVars, ctrlVars, audioVars, resets, workerVars, callerVars,
          histVars>>

(* --------------------------- InputHook -------------------------------- *)

\* One part of the hotkey string: the key objects it adds.
PartKeys(part) ==
    IF part = "ctrl" THEN {"ctrl_l", "ctrl_r"}
    ELSE IF part = "alt" THEN {"alt_l", "alt_r"}
    ELSE IF part = "shift" THEN {"shift_l", "shift_r"}
    ELSE {part}

ParseHotkey(parts) == UNION {PartKeys(parts[i]) : i \in 1..Len(parts)}

\* The hotkey strings of the runs of SpecParse, after lower() and
\* split('+'): modifiers, a character, and a token that names no key.
Tokens == {"ctrl", "alt", "x", "f13"}

\* The tokens that are neither a modifier nor a character.
UnknownTokens == {"f13"}

HotkeySpecs ==
    {<<a>> : a \in Tokens} \cup {<<a, b>> : a \in Tokens, b \in Tokens}

\* _parse_hotkey when keyboard.KeyCode.from_char raises for the tokens of
\* `raising` (they are logged and left out) and returns a key object for
\* every other token.
ParseHotkeyRaising(parts, raising) ==
    UNION {IF parts[i] \in raising THEN {} ELSE PartKeys(parts[i]) :
             i \in 1..Len(parts)}

IsHotkeyPressed(pressed) == \E required_key \in hotkey_keys : required_key \in pressed

(* -------------------------- VoskEngine -------------------------------- *)

\* A recognition step that also returns its partial results.
PartialForwarded(out, frame) ==
    IF out = "final_text" THEN <<"proc", frame.n>>
    ELSE IF out = "partial" THEN <<"partial", frame.n>>
    ELSE <<"", 0>>

\* A recognition step that returns a text for a frame it failed on.
FailedFrameText(out, frame) == <<"proc", frame.n>>

\* process_audio's return value for a frame, by what the recognizer did.
ProcessAudio(out, frame) ==
    IF out = "final_text" THEN <<"proc", frame.n>> ELSE NoText

\* finalize's return value.
FinalizeText(out, session) ==
    IF out = "text" THEN <<"final", session>> ELSE NoText

\* finalize replaces the recognizer unless FinalResult raised.
FinalizeResets(out) == IF out = "error" THEN resets ELSE resets + 1

(* ----------------------------- Init ----------------------------------- *)

\* Controller.__init__ and the constructors it calls, but for the hotkey.
InitFields ==
    /\ current_keys = {}
    /\ listener = None
    /\ hookpc = "idle"
    /\ final_text = NoText
    /\ lastFired = "none"
    /\ pressedSince = FALSE
    /\ is_recording = FALSE
    /\ audio_queue = <<>>
    /\ text_queue = <<>>
    /\ stop_event = FALSE
    /\ worker_thread = 0
    /\ stream = None
    /\ audio_rec = FALSE
    /\ resets = 0
    /\ wpc = [w \in Workers |-> "none"]
    /\ whand = [w \in Workers |-> NoFrame]
    /\ wtext = [w \in Workers |-> NoText]
    /\ life = "init"
    /\ stops = 0
    /\ pullpc = "idle"
    /\ sessions = 0
    /\ delivered = 0
    /\ offered = <<>>
    /\ drops = 0
    /\ arrived = <<>>
    /\ processed = <<>>
    /\ texts_in = <<>>
    /\ pulled = <<>>
    /\ lastPull = NoneText
    /\ afterStop = [w \in Workers |-> 0]
    /\ late = [w \in Workers |-> FALSE]
    /\ finals = <<>>

\* The state after Controller() with the default configuration.
Init ==
    /\ hotkey = DefaultHotkey
    /\ hotkey_keys = ParseHotkey(hotkey)
    /\ InitFields

(* ------------------------- AudioCapture -------------------------------- *)

\* AudioCapture.start up to stream.start(): TRUE when the caller goes on to
\* set is_recording, FALSE when it returns early or InputStream raises.
AudioStartStream(ok) ==
    IF stream # None
    THEN /\ ok = FALSE
         /\ UNCHANGED stream
    ELSE \/ /\ ok = TRUE
            /\ stream' = "active"
         \/ /\ ok = FALSE
            /\ UNCHANGED stream

\* AudioCapture.stop up to is_recording = False: TRUE when the caller goes
\* on to close the stream, FALSE when there is no stream to stop.
AudioStopFlag(ok) ==
    IF stream = None
    THEN /\ ok = FALSE
         /\ UNCHANGED audio_rec
    ELSE /\ ok = TRUE
         /\ audio_rec' = FALSE

\* AudioCapture.stop: stream.stop(), stream.close(), stream = None.
AudioStopClose == stream' = None

\* A put(block=False) that takes no room beyond maxsize.
QueueFullOffByOne(queue) == Len(queue) > Cf

\* self.audio_queue.put(audio_bytes, block=False) raises queue.Full.
QueueFull(queue) == Len(queue) >= Cf

\* AudioCapture._audio_callback for the next frame of the device; `bound`
\* frames are delivered in a run.
AudioCallback(bound) ==
    /\ stream = "active"
    /\ delivered < bound
    /\ delivered' = delivered + 1
    /\ LET frame == [n |-> delivered + 1, s |-> sessions] IN
       IF audio_rec
       THEN /\ offered' = Append(offered, frame)
            /\ IF ~QueueFull(audio_queue)
               THEN /\ audio_queue' = Append(audio_queue, frame)
                    /\ arrived' = Append(arrived, frame)
                    /\ UNCHANGED drops
               ELSE /\ drops' = drops + 1
                    /\ UNCHANGED <<audio_queue, arrived>>
       ELSE UNCHANGED <<audio_queue, offered, arrived, drops>>
    /\ UNCHANGED <<hookVars, is_recording, text_queue, stop_event,
                   worker_thread, audioVars, resets, workerVars, callerVars,
                   sessions, processed, texts_in, pulled, lastPull,
                   afterStop, late, finals>>

(* ------------------ key-event thread: key down ------------------------ *)

\* Controller._on_hotkey_press up to the call of audio_service.start().
OnHotkeyPress(cap) ==
    IF ~is_recording
    THEN /\ sessions < cap
         /\ is_recording' = TRUE
         /\ sessions' = sessions + 1
         /\ hookpc' = "p_start"
    ELSE UNCHANGED <<is_recording, sessions, hookpc>>

\* InputHook._on_press(key); `cap` sessions are started in a run.
KeyDown(key, cap) ==
    /\ listener = "running"
    /\ hookpc = "idle"
    /\ current_keys' = current_keys \cup {key}
    /\ IF IsHotkeyPressed(current_keys')
       THEN /\ lastFired' = "press"
            /\ pressedSince' = TRUE
            /\ OnHotkeyPress(cap)
       ELSE /\ lastFired' = "none"
            /\ UNCHANGED <<pressedSince, is_recording, sessions, hookpc>>
    /\ UNCHANGED <<hotkey, hotkey_keys, listener, final_text, audio_queue,
                   text_queue, stop_event, worker_thread, audioVars, resets,
                   workerVars, callerVars, delivered, offered, drops, arrived,
                   processed, texts_in, pulled, lastPull, afterStop, late, finals>>

\* A key handler that lets the exception of the press callback through:
\* the listener thread ends with it.
PressStartEscapes ==
    /\ hookpc = "p_start"
    /\ \E ok \in BOOLEAN :
         /\ AudioStartStream(ok)
         /\ hookpc' = IF ok THEN "p_flag" ELSE "idle"
         /\ listener' = IF ok \/ stream # None THEN listener ELSE None
    /\ UNCHANGED <<hotkey, hotkey_keys, current_keys, final_text, lastFired,
                   pressedSince, ctrlVars, audio_rec, resets, workerVars,
                   callerVars, histVars>>

\* Controller._on_hotkey_press: audio_service.start() up to stream.start();
\* an exception of InputStream is caught in InputHook._on_press.
PressStartStream ==
    /\ hookpc = "p_start"
    /\ \E ok \in BOOLEAN :
         /\ AudioStartStream(ok)
         /\ hookpc' = IF ok THEN "p_flag" ELSE "idle"
    /\ UNCHANGED <<hotkey, hotkey_keys, current_keys, listener, final_text,
                   lastFired, pressedSince, ctrlVars, audio_rec, resets,
                   workerVars, callerVars, histVars>>

\* AudioCapture.start: is_recording = True.
PressSetFlag ==
    /\ hookpc = "p_flag"
    /\ audio_rec' = TRUE
    /\ hookpc' = "idle"
    /\ UNCHANGED <<hotkey, hotkey_keys, current_keys, listener, final_text,
                   lastFired, pressedSince, ctrlVars, stream, resets,
                   workerVars, callerVars, histVars>>

\* Controller._on_hotkey_press called by a detector on a press-edge.
PressEdge(cap) ==
    /\ hookpc = "idle"
    /\ lastFired' = "press"
    /\ pressedSince' = TRUE
    /\ OnHotkeyPress(cap)
    /\ UNCHANGED <<hotkey, hotkey_keys, current_keys, listener, final_text,
                   audio_queue, text_queue, stop_event, worker_thread,
                   audioVars, resets, workerVars, callerVars, delivered,
                   offered, drops, arrived, processed, texts_in, pulled,
                   lastPull, afterStop, late, finals>>

(* ------------------- key-event thread: key up ------------------------- *)

\* A release callback without the test of the session flag.
OnHotkeyReleaseUnguarded ==
    /\ is_recording' = FALSE
    /\ hookpc' = "r_stop"

\* Controller._on_hotkey_release up to the call of audio_service.stop().
OnHotkeyRelease ==
    IF is_recording
    THEN /\ is_recording' = FALSE
         /\ hookpc' = "r_stop"
    ELSE UNCHANGED <<is_recording, hookpc>>

\* InputHook._on_release(key).
KeyUp(key) ==
    /\ listener = "running"
    /\ hookpc = "idle"
    /\ LET was_active == IsHotkeyPressed(current_keys) IN
       /\ current_keys' = current_keys \ {key}
       /\ IF was_active /\ ~IsHotkeyPressed(current_keys')
          THEN /\ lastFired' = "release"
               /\ pressedSince' = FALSE
               /\ OnHotkeyRelease
          ELSE /\ lastFired' = "none"
               /\ UNCHANGED <<pressedSince, is_recording, hookpc>>
    /\ UNCHANGED <<hotkey, hotkey_keys, listener, final_text, audio_queue,
                   text_queue, stop_event, worker_thread, audioVars, resets,
                   workerVars, callerVars, histVars>>

\* Controller._on_hotkey_release called by a detector on a release-edge.
ReleaseEdge ==
    /\ hookpc = "idle"
    /\ lastFired' = "release"
    /\ pressedSince' = FALSE
    /\ OnHotkeyRelease
    /\ UNCHANGED <<hotkey, hotkey_keys, current_keys, listener, final_text,
                   audio_queue, text_queue, stop_event, worker_thread,
                   audioVars, resets, workerVars, callerVars, histVars>>

\* Controller._on_hotkey_release: audio_service.stop() up to the flag.
ReleaseStopFlag ==
    /\ hookpc = "r_stop"
    /\ \E ok \in BOOLEAN :
         /\ AudioStopFlag(ok)
         /\ hookpc' = IF ok THEN "r_close" ELSE "r_fin"
    /\ UNCHANGED <<hotkey, hotkey_keys, current_keys, listener, final_text,
                   lastFired, pressedSince, ctrlVars, stream, resets,
                   workerVars, callerVars, histVars>>

\* Controller._on_hotkey_release: audio_service.stop() closes the stream.
ReleaseStopClose ==
    /\ hookpc = "r_close"
    /\ AudioStopClose
    /\ hookpc' = "r_fin"
    /\ UNCHANGED <<hotkey, hotkey_keys, current_keys, listener, final_text,
                   lastFired, pressedSince, ctrlVars, audio_rec, resets,
                   workerVars, callerVars, histVars>>

\* A release handler that puts whatever finalize returned.
AnyFinalText(text) == TRUE

\* Controller._on_hotkey_release: if final_text.
HasFinalText(text) == text # NoText

\* Controller._on_hotkey_release: final_text = self.engine.finalize().
ReleaseFinalize ==
    /\ hookpc = "r_fin"
    /\ \E out \in FinalizeOutcomes :
         /\ final_text' = FinalizeText(out, sessions)
         /\ resets' = FinalizeResets(out)
         /\ finals' = Append(finals, final_text')
         /\ hookpc' = IF HasFinalText(final_text') THEN "r_put" ELSE "idle"
    /\ UNCHANGED <<hotkey, hotkey_keys, current_keys, listener, lastFired,
                   pressedSince, ctrlVars, audioVars, workerVars, callerVars,
                   sessions, delivered, offered, drops, arrived, processed, texts_in,
                   pulled, lastPull, afterStop, late>>

\* Controller._on_hotkey_release: self.text_queue.put(final_text), which
\* waits while the queue is full.
ReleasePut ==
    /\ hookpc = "r_put"
    /\ Len(text_queue) < Ct
    /\ text_queue' = Append(text_queue, final_text)
    /\ texts_in' = Append(texts_in, final_text)
    /\ final_text' = NoText
    /\ hookpc' = "idle"
    /\ UNCHANGED <<hotkey, hotkey_keys, current_keys, listener, lastFired,
                   pressedSince, is_recording, audio_queue, stop_event,
                   worker_thread, audioVars, resets, workerVars, callerVars,
                   sessions, delivered, offered, drops, arrived, processed, pulled,
                   lastPull, afterStop, late, finals>>

(* --------------------------- worker thread ---------------------------- *)

\* Controller._worker_loop: while not self.stop_event.is_set().
WorkerLoop(w) ==
    /\ wpc[w] = "loop"
    /\ wpc' = [wpc EXCEPT ![w] = IF stop_event THEN "done" ELSE "get"]
    /\ UNCHANGED <<hookVars, ctrlVars, audioVars, resets, whand, wtext,
                   callerVars, histVars>>

\* A get that takes the newest frame of the queue.
NewestFrame(queue) == queue[Len(queue)]

\* The frame self.audio_queue.get returns: the oldest of the queue.
NextFrame(queue) == Head(queue)

\* Controller._worker_loop: self.audio_queue.get(timeout=0.1); queue.Empty
\* goes back to the loop test.
WorkerGet(w) ==
    /\ wpc[w] = "get"
    /\ IF audio_queue # <<>>
       THEN /\ whand' = [whand EXCEPT ![w] = NextFrame(audio_queue)]
            /\ audio_queue' = Tail(audio_queue)
            /\ wpc' = [wpc EXCEPT ![w] = "proc"]
            /\ afterStop' = [afterStop EXCEPT
                               ![w] = IF stop_event THEN @ + 1 ELSE @]
       ELSE /\ wpc' = [wpc EXCEPT ![w] = "loop"]
            /\ UNCHANGED <<whand, audio_queue, afterStop>>
    /\ UNCHANGED <<hookVars, is_recording, text_queue, stop_event,
                   worker_thread, audioVars, resets, wtext, callerVars,
                   sessions, delivered, offered, drops, arrived, processed, texts_in,
                   pulled, lastPull, late, finals>>

\* A worker that finds no text in any result of process_audio.
NoWorkerText(text) == FALSE

\* Controller._worker_loop: if text.
WorkerHasText(text) == text # NoText

\* Controller._worker_loop: text = self.engine.process_audio(audio_chunk),
\* then task_done() when there is no text to put.
WorkerProcess(w) ==
    /\ wpc[w] = "proc"
    /\ \E out \in ProcessOutcomes :
         LET text == ProcessAudio(out, whand[w]) IN
         /\ processed' = Append(processed,
                [n |-> whand[w].n, s |-> whand[w].s, g |-> resets,
                 e |-> (out = "error")])
         /\ wtext' = [wtext EXCEPT ![w] = text]
         /\ wpc' = [wpc EXCEPT
                     ![w] = IF WorkerHasText(text) THEN "put" ELSE "loop"]
    /\ whand' = [whand EXCEPT ![w] = NoFrame]
    /\ UNCHANGED <<hookVars, ctrlVars, audioVars, resets, callerVars,
                   sessions, delivered, offered, drops, arrived, texts_in, pulled,
                   lastPull, afterStop, late, finals>>

\* Controller._worker_loop: self.text_queue.put(text), which waits while
\* the queue is full, then task_done().
WorkerPut(w) ==
    /\ wpc[w] = "put"
    /\ Len(text_queue) < Ct
    /\ text_queue' = Append(text_queue, wtext[w])
    /\ texts_in' = Append(texts_in, wtext[w])
    /\ wtext' = [wtext EXCEPT ![w] = NoText]
    /\ wpc' = [wpc EXCEPT ![w] = "loop"]
    /\ UNCHANGED <<hookVars, is_recording, audio_queue, stop_event,
                   worker_thread, audioVars, resets, whand, callerVars,
                   sessions, delivered, offered, drops, arrived, processed, pulled,
                   lastPull, afterStop, late, finals>>

(* ------------------------ Controller.start ---------------------------- *)

\* A start() that clears the stop signal for its new worker.
StartClearsStop ==
    /\ worker_thread < MaxWorkers
    /\ worker_thread' = worker_thread + 1
    /\ wpc' = [wpc EXCEPT ![worker_thread + 1] = "loop"]
    /\ listener' = "running"
    /\ stop_event' = FALSE
    /\ late' = [late EXCEPT ![worker_thread + 1] = stop_event]
    /\ UNCHANGED <<hotkey, hotkey_keys, current_keys, hookpc, final_text,
                   lastFired, pressedSince, is_recording, audio_queue,
                   text_queue, audioVars, resets, whand, wtext, stops,
                   pullpc, sessions, delivered, offered, drops, arrived,
                   processed, texts_in, pulled, lastPull, afterStop,
                   finals>>

\* Controller.start: a new worker thread, then input_hook.start().
Start ==
    /\ worker_thread < MaxWorkers
    /\ worker_thread' = worker_thread + 1
    /\ wpc' = [wpc EXCEPT ![worker_thread + 1] = "loop"]
    /\ listener' = "running"
    /\ late' = [late EXCEPT ![worker_thread + 1] = stop_event]
    /\ UNCHANGED <<hotkey, hotkey_keys, current_keys, hookpc, final_text, lastFired,
                   pressedSince, is_recording, audio_queue, text_queue,
                   stop_event, audioVars, resets, whand, wtext, stops,
                   pullpc, sessions, delivered, offered, drops, arrived,
                   processed, texts_in, pulled, lastPull, afterStop,
                   finals>>

\* main(): controller.start(), once.
MainStart ==
    /\ life = "init"
    /\ Start
    /\ life' = "running"

\* controller.start() called by any caller, any number of times, before or
\* after a stop().
ApiStart ==
    /\ life \in {"init", "running", "stopped"}
    /\ Start
    /\ life' = "running"

(* ------------------------- Controller.stop ---------------------------- *)

\* Controller.stop: if self.is_recording: self.audio_service.stop(), up to
\* AudioCapture's flag.
StopCall ==
    /\ life \in {"running", "stopped"}
    /\ stops < MaxStops
    /\ stops' = stops + 1
    /\ IF is_recording
       THEN \E ok \in BOOLEAN :
              /\ AudioStopFlag(ok)
              /\ life' = IF ok THEN "s_close" ELSE "s_hook"
       ELSE /\ life' = "s_hook"
            /\ UNCHANGED audio_rec
    /\ UNCHANGED <<hookVars, ctrlVars, stream, resets, workerVars, pullpc,
                   histVars>>

\* Controller.stop: audio_service.stop() closes the stream.
StopClose ==
    /\ life = "s_close"
    /\ AudioStopClose
    /\ life' = "s_hook"
    /\ UNCHANGED <<hookVars, ctrlVars, audio_rec, resets, workerVars, stops,
                   pullpc, histVars>>

\* Controller.stop: self.input_hook.stop().
StopHook ==
    /\ life = "s_hook"
    /\ IF listener = None
       THEN UNCHANGED <<listener, current_keys>>
       ELSE /\ listener' = None
            /\ current_keys' = {}
    /\ life' = "s_event"
    /\ UNCHANGED <<hotkey, hotkey_keys, hookpc, final_text, lastFired, pressedSince,
                   ctrlVars, audioVars, resets, workerVars, stops, pullpc,
                   histVars>>

\* Controller.stop: self.stop_event.set().
StopEvent ==
    /\ life = "s_event"
    /\ stop_event' = TRUE
    /\ life' = "s_join"
    /\ UNCHANGED <<hookVars, is_recording, audio_queue, text_queue,
                   worker_thread, audioVars, resets, workerVars, stops,
                   pullpc, histVars>>

\* A join without a timeout: it returns only when the thread has ended.
JoinForever(ended) == ended

\* self.worker_thread.join(timeout=5) returns when the thread has ended
\* or when the five seconds are over.
JoinReturns(ended) == ended \/ ~ended

\* Controller.stop: if self.worker_thread and self.worker_thread.is_alive():
\* self.worker_thread.join(timeout=5).
StopJoin ==
    /\ life = "s_join"
    /\ \/ worker_thread = 0
       \/ /\ worker_thread # 0
          /\ JoinReturns(wpc[worker_thread] = "done")
    /\ life' = "stopped"
    /\ UNCHANGED <<hookVars, ctrlVars, audioVars, resets, workerVars, stops,
                   pullpc, histVars>>

(* ----------------------- Controller.get_text -------------------------- *)

\* get_text(timeout): self.text_queue.get(timeout=timeout) returns the
\* oldest text at once when there is one, and waits otherwise; timeout is
\* None (the default) or a number.
PullCall(timeout) ==
    /\ pullpc = "idle"
    /\ IF text_queue # <<>>
       THEN /\ lastPull' = Head(text_queue)
            /\ pulled' = Append(pulled, Head(text_queue))
            /\ text_queue' = Tail(text_queue)
            /\ UNCHANGED pullpc
       ELSE /\ pullpc' = IF timeout = None THEN "wait_none" ELSE "wait_timed"
            /\ UNCHANGED <<lastPull, pulled, text_queue>>
    /\ UNCHANGED <<hookVars, is_recording, audio_queue, stop_event,
                   worker_thread, audioVars, resets, workerVars, life, stops,
                   sessions, delivered, offered, drops, arrived, processed,
                   texts_in, afterStop, late, finals>>

\* get_text: the waiting get returns the text that was put meanwhile.
PullReturn ==
    /\ pullpc # "idle"
    /\ text_queue # <<>>
    /\ lastPull' = Head(text_queue)
    /\ pulled' = Append(pulled, Head(text_queue))
    /\ text_queue' = Tail(text_queue)
    /\ pullpc' = "idle"
    /\ UNCHANGED <<hookVars, is_recording, audio_queue, stop_event,
                   worker_thread, audioVars, resets, workerVars, life, stops,
                   sessions, delivered, offered, drops, arrived, processed,
                   texts_in, afterStop, late, finals>>

\* get_text: queue.Empty after the timeout, None is returned.
PullTimeout ==
    /\ pullpc = "wait_timed"
    /\ text_queue = <<>>
    /\ lastPull' = NoneText
    /\ pullpc' = "idle"
    /\ UNCHANGED <<hookVars, ctrlVars, audioVars, resets, workerVars, life,
                   stops, sessions, delivered, offered, drops, arrived, processed,
                   texts_in, pulled, afterStop, late, finals>>

(* --------------------------- specification ---------------------------- *)

KeyThread ==
    \/ PressStartStream
    \/ PressSetFlag
    \/ ReleaseStopFlag
    \/ ReleaseStopClose
    \/ ReleaseFinalize
    \/ ReleasePut

WorkerThread(w) ==
    \/ WorkerLoop(w)
    \/ WorkerGet(w)
    \/ WorkerProcess(w)
    \/ WorkerPut(w)

\* The steps of a stop() that was called.
StopSteps ==
    \/ StopClose
    \/ StopHook
    \/ StopEvent
    \/ StopJoin

StopThread ==
    \/ StopCall
    \/ StopSteps

Reader ==
    \/ \E timeout \in {None, "1.0"} : PullCall(timeout)
    \/ PullReturn
    \/ PullTimeout

\* The program as main.py drives it: one start(), key events, frames,
\* get_text calls, stop().
Next ==
    \/ MainStart
    \/ \E key \in SpecKeys : KeyDown(key, MaxSessions)
    \/ \E key \in SpecKeys : KeyUp(key)
    \/ KeyThread
    \/ AudioCallback(MaxFrames)
    \/ \E w \in Workers : WorkerThread(w)
    \/ StopThread
    \/ Reader

Spec == Init /\ [][Next]_vars

\* The thread that called stop() keeps running.
FairSpec == Spec /\ WF_vars(StopSteps)

\* Every thread keeps running and the caller keeps calling get_text.
LiveSpec ==
    /\ Spec
    /\ WF_vars(KeyThread)
    /\ \A w \in Workers : WF_vars(WorkerThread(w))
    /\ WF_vars(StopSteps)
    /\ WF_vars(Reader)

\* The key-event thread alone, over every key of the keyboard.
NextHook ==
    \/ MainStart
    \/ \E key \in Keys : KeyDown(key, HookSessions)
    \/ \E key \in Keys : KeyUp(key)
    \/ KeyThread

SpecHook == Init /\ [][NextHook]_vars

\* Controller() with any hotkey string of the configuration; from_char is
\* the library's, and raises for an unknown token or does not.
InitParse ==
    /\ hotkey \in HotkeySpecs
    /\ \E raising \in SUBSET UnknownTokens :
         hotkey_keys = ParseHotkeyRaising(hotkey, raising)
    /\ InitFields

\* The key-event thread under every hotkey string.
SpecParse == InitParse /\ [][NextHook]_vars

\* The Controller's two callbacks under a detector that delivers press-
\* and release-edges in any order.
NextSession ==
    \/ MainStart
    \/ PressEdge(HookSessions)
    \/ ReleaseEdge
    \/ KeyThread
    \/ AudioCallback(MaxFrames)
    \/ Reader

SpecSession == Init /\ [][NextSession]_vars

\* The Controller under a caller that calls start() and stop() in any
\* order; no one pulls.
NextApi ==
    \/ ApiStart
    \/ \E key \in SpecKeys : KeyDown(key, MaxSessions)
    \/ \E key \in SpecKeys : KeyUp(key)
    \/ KeyThread
    \/ AudioCallback(MaxFrames)
    \/ \E w \in Workers : WorkerThread(w)
    \/ StopThread

SpecApi == Init /\ [][NextApi]_vars

\* Capture into a frame queue that no consumer drains: key events and the
\* capture callback run, the worker thread is never scheduled.
NextCapture ==
    \/ MainStart
    \/ \E key \in SpecKeys : KeyDown(key, HookSessions)
    \/ \E key \in SpecKeys : KeyUp(key)
    \/ KeyThread
    \/ AudioCallback(OverflowFrames)

SpecCapture == Init /\ [][NextCapture]_vars

(* ------------------------------ claims -------------------------------- *)

\* The key-groups of the chord 'ctrl+alt': one group per part.
ChordGroups == {PartKeys(DefaultHotkey[i]) : i \in 1..Len(DefaultHotkey)}

\* A chord is satisfied iff every key-group has a pressed member.
ChordSatisfied(pressed) == \A group \in ChordGroups : group \cap pressed # {}

\* A step of the key-event thread that is a call of InputHook._on_press.
IsKeyDown == \E key \in Keys : KeyDown(key, HookSessions)

\* A step of the key-event thread that is a call of InputHook._on_release.
IsKeyUp == \E key \in Keys : KeyUp(key)

\* C1: for every set of pressed keys the detector reports the chord
\* satisfied if and only if every key-group has a pressed member; with only
\* ctrl keys (or only alt keys) pressed it is not satisfied.
C1_SatisfiedIffEveryGroup ==
    IsHotkeyPressed(current_keys) <=> ChordSatisfied(current_keys)

\* C2: a key-down invokes the press callback exactly when it takes the
\* chord, as the detector itself reports it, from unsatisfied to satisfied;
\* a key-down while the chord is already satisfied invokes nothing.
C2_PressOncePerActivation ==
    [][IsKeyDown =>
         ((lastFired' = "press") <=>
             (~IsHotkeyPressed(current_keys)
                 /\ IsHotkeyPressed(current_keys')))]_vars

\* C3: a key-up invokes the release callback exactly when it takes the
\* chord from satisfied (every group has a pressed member) to unsatisfied,
\* and only after a press callback since the last release.
C3_ReleaseOncePerDeactivation ==
    [][IsKeyUp =>
         /\ (lastFired' = "release") <=>
                (ChordSatisfied(current_keys)
                    /\ ~ChordSatisfied(current_keys'))
         /\ (lastFired' = "release") => pressedSince]_vars

\* No handler of the key-event thread and no stop() is under way.
Quiescent == hookpc = "idle" /\ life \in {"init", "running", "stopped"}

\* The capture source is delivering frames into the frame queue.
Capturing == stream = "active" /\ audio_rec

\* C4: whenever no handler is under way, the capture source is capturing
\* if and only if the session flag is Recording.
C4_CapturingIffRecording == Quiescent => (Capturing <=> is_recording)

Min(a, b) == IF a < b THEN a ELSE b

\* C5: a frame queue that no consumer drains holds exactly the first Cf
\* frames offered to it, in their order, and every later frame is one
\* drop event; the queue never holds more than Cf frames.
C5_OverflowKeepsFirstCf ==
    /\ Len(audio_queue) <= Cf
    /\ audio_queue = SubSeq(offered, 1, Min(Len(offered), Cf))
    /\ drops = Len(offered) - Len(audio_queue)

\* Cf + 5 frames were offered: Cf are retained and 5 were dropped.
C5_Witness ==
    /\ Len(offered) = Cf + 5
    /\ Len(audio_queue) = Cf
    /\ drops = 5

\* The frames the workers hold between the get and process_audio, by
\* worker.
RECURSIVE HandsUpTo(_)
HandsUpTo(w) ==
    IF w = 0 THEN <<>>
    ELSE HandsUpTo(w - 1) \o (IF wpc[w] = "proc" THEN <<whand[w]>> ELSE <<>>)

\* The frames passed to the recognition stage, in the order they were.
FramesSeen == [i \in 1..Len(processed) |-> [n |-> processed[i].n, s |-> processed[i].s]]

\* C6: the frames passed to the recognition stage, then the frame in the
\* worker's hand, then the frame queue, are the frames that arrived in the
\* queue, in arrival order: none twice, none out of order, none missing;
\* the only offered frames that did not arrive are the overflow drops.
C6_FramesProcessedInArrivalOrder ==
    /\ FramesSeen \o HandsUpTo(MaxWorkers) \o audio_queue = arrived
    /\ Len(arrived) + drops = Len(offered)

\* Two frames were processed while a third one was dropped on overflow.
C6_Witness ==
    /\ Len(processed) >= 2
    /\ drops >= 1

\* C7: a frame captured during session N is fed only to the recognizer of
\* session N, the one in place after the N - 1 resets of the sessions
\* before it: the reset of a release-edge comes after the last frame of
\* the session it ends.
C7_SessionIsolation ==
    \A i \in 1..Len(processed) : processed[i].g = processed[i].s - 1

Range(seq) == {seq[i] : i \in 1..Len(seq)}

\* The texts finalize returned to the release handler and that are put, or
\* about to be.
FinalTextsDue == {text \in Range(finals) : text # NoText}

FinalTextsPut ==
    {text \in Range(texts_in) : text[1] = "final"}
        \cup (IF hookpc = "r_put" THEN {final_text} ELSE {})

\* A step in which get_text returns.
PullReturns == pulled' # pulled \/ (pullpc # "idle" /\ pullpc' = "idle")

\* C8: a text T that finalize returns on a release-edge is put into the
\* text queue once, and is returned by one pull, after which it is
\* neither in the queue nor returned again; a pull that finds the queue
\* empty returns None; an empty text of finalize is never put.
C8_FinalTextPulledOnce ==
    /\ [](/\ \A i \in 1..Len(texts_in) : texts_in[i] # NoText
          /\ \A i, j \in 1..Len(texts_in) :
                texts_in[i] = texts_in[j] => i = j
          /\ texts_in = pulled \o text_queue
          /\ FinalTextsPut = FinalTextsDue)
    /\ [][PullReturns =>
            IF text_queue = <<>>
            THEN lastPull' = NoneText /\ pulled' = pulled
            ELSE /\ lastPull' = Head(text_queue)
                 /\ pulled' = Append(pulled, lastPull')
                 /\ text_queue' = Tail(text_queue)]_vars

\* Frames were processed without text, finalize returned a text, one pull
\* returned it and the next pull returned None.
C8_Witness ==
    /\ Len(processed) >= 1
    /\ texts_in = <<<<"final", 1>>>>
    /\ pulled = <<<<"final", 1>>>>
    /\ lastPull = NoneText
    /\ pullpc = "idle"

\* stop() was called and has not returned.
Stopping == life \in {"s_close", "s_hook", "s_event", "s_join"}

\* C9: a call of stop() returns, whatever the backlog of the frame queue
\* and whatever the worker is doing, and once the stop signal is set a
\* worker takes at most one more frame from the frame queue.
C9_StopReturns ==
    /\ Stopping ~> life = "stopped"
    /\ [](\A w \in Workers : afterStop[w] <= 1)

\* stop() has returned with a backlog in the frame queue and the worker
\* waiting on the full text queue.
C9_Witness ==
    /\ life = "stopped"
    /\ audio_queue # <<>>
    /\ wpc[1] = "put"
    /\ Len(text_queue) = Ct

\* C10: a pull that waits on an empty text queue returns None when its
\* timeout is over, whatever timeout argument it was called with, and a
\* pull on a non-empty queue returns the oldest text.
C10_PullNeverBlocksForever ==
    /\ (pullpc # "idle" /\ text_queue = <<>>) => ENABLED PullTimeout
    /\ texts_in = pulled \o text_queue

\* The texts a run can produce: one per frame, one per session.
Texts ==
    {<<"proc", n>> : n \in 1..MaxFrames}
        \cup {<<"final", s>> : s \in 1..MaxSessions}

\* The text was returned by process_audio to a worker, or by finalize to
\* the release handler, and is not in the text queue yet.
Produced(text) ==
    \/ \E w \in Workers : wtext[w] = text
    \/ final_text = text

\* A text is on its way to the caller: produced and not put yet, or in
\* the text queue.
Pending == (\E text \in Texts : Produced(text)) \/ text_queue # <<>>

\* C11: every non-empty text that process_audio or finalize returns is put
\* into the text queue (the put waits while the queue is full) and, the
\* caller pulling on, is returned by get_text, once: also a text produced
\* just before or during stop().  A produced text leaves its producer's
\* hand only into the text queue, the texts put are the texts pulled
\* followed by the queue, no text is pulled twice, and whenever a text is
\* on its way there comes a state where none is.
C11_TextNeverLost ==
    /\ Pending ~> ~Pending
    /\ [][\A text \in Texts :
            (Produced(text) /\ ~Produced(text)')
                => text \in Range(texts_in')]_vars
    /\ [](/\ texts_in = pulled \o text_queue
          /\ \A i, j \in 1..Len(pulled) : pulled[i] = pulled[j] => i = j
          /\ \A text \in Texts :
                Produced(text) => text \notin Range(texts_in))

\* stop() has returned, and a text the worker produced after the stop
\* signal was set has been pulled.
C11_Witness ==
    /\ life = "stopped"
    /\ \E w \in Workers : afterStop[w] = 1
    /\ \E i \in 1..Len(pulled) :
          /\ pulled[i][1] = "proc"
          /\ \E j \in 1..Len(processed) :
                processed[j].n = pulled[i][2] /\ j = Len(processed)

\* The recognition step failed on some frame.
SomeFrameFailed == \E i \in 1..Len(processed) : processed[i].e

\* Frames are waiting for the recognition step, in the queue or in a
\* worker's hand.
Backlog == audio_queue # <<>> \/ \E w \in Workers : wpc[w] = "proc"

\* C12: a worker ends only when the stop signal is set, a frame the
\* recognition step failed on yields no text, the frames after it are
\* passed to the recognition step in arrival order, and after a failure
\* the frames that wait are processed unless the stop signal is set.
C12_FailedFrameIsolated ==
    /\ [](/\ \A w \in Workers : wpc[w] = "done" => stop_event
          /\ \A i \in 1..Len(processed) :
                processed[i].e =>
                    /\ <<"proc", processed[i].n>> \notin Range(texts_in)
                    /\ \A w \in Workers :
                          wtext[w] # <<"proc", processed[i].n>>
          /\ FramesSeen \o HandsUpTo(MaxWorkers) \o audio_queue = arrived)
    /\ (SomeFrameFailed /\ Backlog) ~> (stop_event \/ ~Backlog)

\* The recognition step failed on the first frame and returned a text for
\* the second, which was pulled.
C12_Witness ==
    /\ Len(processed) >= 2
    /\ processed[1].e
    /\ ~processed[2].e
    /\ <<"proc", processed[2].n>> \in Range(pulled)
    /\ ~stop_event

\* The step in which the press callback fails: sd.InputStream raises and
\* the exception reaches InputHook._on_press.
PressCallbackFails == hookpc = "p_start" /\ hookpc' = "idle" /\ stream = None

\* C13: a press callback that fails does not end the key-event handler's
\* thread, the key of that event stays in the pressed-key set, and every
\* key event that takes the chord, as the detector reports it, from
\* unsatisfied to satisfied or back invokes its callback, also after a
\* failure.
C13_CallbackFaultIsolated ==
    /\ [][PressCallbackFails =>
            /\ listener' = "running"
            /\ current_keys' = current_keys
            /\ IsHotkeyPressed(current_keys')]_vars
    /\ [][(IsKeyDown /\ ~IsHotkeyPressed(current_keys)
                /\ IsHotkeyPressed(current_keys'))
            => lastFired' = "press"]_vars
    /\ [][(IsKeyUp /\ IsHotkeyPressed(current_keys)
                /\ ~IsHotkeyPressed(current_keys'))
            => lastFired' = "release"]_vars
    /\ []((listener = "running" /\ hookpc = "idle")
            => \A key \in Keys : ENABLED KeyUp(key))

\* The press callback of the second session failed (the session flag is
\* set, there is no stream) and the key-up that followed invoked the
\* release callback, which is under way.
C13_Witness ==
    /\ hookpc = "r_stop"
    /\ stream = None
    /\ lastFired = "release"
    /\ sessions = 2

\* The key-groups of a hotkey string that resolve to keys.
ResolvableGroups(parts) ==
    {PartKeys(parts[i]) : i \in {j \in 1..Len(parts) : parts[j] \notin UnknownTokens}}

\* C14: a hotkey string with a resolvable key-group gives a detector whose
\* keys include every resolvable group, whatever unknown tokens it has,
\* and a hotkey string that resolves to no key-group aborts construction:
\* there is no detector and the pipeline never starts.
C14_EmptyChordAborts ==
    /\ UNION ResolvableGroups(hotkey) \subseteq hotkey_keys
    /\ ResolvableGroups(hotkey) = {} =>
          (listener = None /\ worker_thread = 0 /\ life = "init")

\* What a session transition can change.
SessionState ==
    <<is_recording, sessions, hookpc, stream, audio_rec, resets, final_text,
      finals, audio_queue, text_queue, texts_in>>

IsPressEdge == PressEdge(HookSessions)

\* C15: a press-edge while Idle sets the session flag and calls the start
\* of the capture (which opens the stream unless the device fails); a
\* press-edge while Recording changes nothing; a release-edge while Idle
\* changes nothing: no capture stop, no finalize, no reset, no text put.
C15_SessionTransitionsGuarded ==
    /\ [][(IsPressEdge /\ ~is_recording) =>
            (is_recording' /\ sessions' = sessions + 1
                /\ hookpc' = "p_start")]_vars
    /\ [][(hookpc = "p_start" /\ hookpc' # "p_start") =>
            \/ stream' = "active" /\ hookpc' = "p_flag"
            \/ UNCHANGED stream /\ hookpc' = "idle"]_vars
    /\ [][(IsPressEdge /\ is_recording) => UNCHANGED SessionState]_vars
    /\ [][(ReleaseEdge /\ ~is_recording) => UNCHANGED SessionState]_vars

\* A release-edge was delivered before any session: the session is Idle,
\* no handler is under way, finalize was not called and nothing was put.
C15_Witness ==
    /\ lastFired = "release"
    /\ sessions = 0
    /\ ~is_recording
    /\ hookpc = "idle"
    /\ stream = None
    /\ finals = <<>>
    /\ resets = 0
    /\ texts_in = <<>>

\* C16: a frame leaves the frame queue only in a worker's get, and a text
\* enters the text queue only in a worker's put: never in a step of the
\* key-event thread, of the capture callback or of the caller.
C16_OnlyWorkerMovesData ==
    [][/\ Len(audio_queue') < Len(audio_queue) =>
            \E w \in Workers : wpc[w] = "get" /\ wpc'[w] = "proc"
       /\ texts_in' # texts_in =>
            \E w \in Workers : wpc[w] = "put" /\ wpc'[w] = "loop"]_vars

\* C17: a key-event handler that is under way can always take its next
\* step, whatever the other threads do or do not do: it never waits, also
\* with a full text queue that the caller does not pull from.
C17_CallbacksNeverBlock == hookpc # "idle" => ENABLED KeyThread

\* C18: the capture callback puts a frame into the frame queue only when
\* the session flag of the Controller is Recording at that moment.
C18_EnqueueOnlyWhileRecording ==
    [][offered' # offered => is_recording]_vars

\* C19: once stop() has returned the capture stream is closed, and no
\* frame is put into the frame queue any more, however the key events
\* interleaved with stop().
C19_NoCaptureAfterStop ==
    /\ [](life = "stopped" => stream = None)
    /\ [][life = "stopped" => offered' = offered]_vars

\* C20: the text queue never holds more than Ct texts, and each of them
\* is a non-empty text that process_audio returned as the final result of
\* a frame it did not fail on, or that finalize returned: no partial and
\* no empty result is in the queue.
C20_OnlyFinalTextQueued ==
    /\ Len(text_queue) <= Ct
    /\ \A i \in 1..Len(text_queue) :
          LET text == text_queue[i] IN
          /\ text # NoText
          /\ \/ /\ text[1] = "proc"
                /\ \E j \in 1..Len(processed) :
                      processed[j].n = text[2] /\ ~processed[j].e
             \/ /\ text[1] = "final"
                /\ text \in Range(finals)

\* The first frame gave no text, the second gave a final result that was
\* pulled, and the text of finalize fills the text queue.
C20_Witness ==
    /\ Len(processed) >= 2
    /\ pulled = <<<<"proc", processed[2].n>>>>
    /\ text_queue = <<<<"final", 1>>>>
    /\ Len(text_queue) = Ct

\* The workers that are running: started and not ended.
Running == {w \in Workers : wpc[w] \notin {"none", "done"}}

\* C21: at most one worker is running at any time, whatever the calls of
\* start() and stop(): never two workers on the frame queue.
C21_AtMostOneWorker == Cardinality(Running) <= 1

\* The key-event thread is at engine.finalize().
InFinalize == hookpc = "r_fin"

\* A worker is at engine.process_audio() with a frame.
InProcess == \E w \in Workers : wpc[w] = "proc"

\* C22: the key-event thread is never at finalize while a worker is at
\* the recognition step of a frame: the two uses of the recognizer do
\* not overlap.
C22_RecognizerNotShared == ~(InFinalize /\ InProcess)

\* The stop signal is set and no worker is between its loop test and the
\* end of the recognition step: what is in the frame queue was left there.
QueueSettled ==
    /\ stop_event
    /\ \A w \in Workers : wpc[w] \notin {"get", "proc"}

\* C23: the stop signal, once set, stays set whatever is called; a worker
\* started when it is set ends at its first loop test and takes no frame;
\* and the frames left in the frame queue stay there: none is taken out
\* and none is passed to the recognition step.
C23_StopSignalMonotone ==
    /\ [][stop_event => stop_event']_vars
    /\ [](\A w \in Workers :
            late[w] => (wpc[w] \in {"loop", "done"} /\ afterStop[w] = 0))
    /\ [][QueueSettled =>
            /\ QueueSettled'
            /\ processed' = processed
            /\ Len(audio_queue') >= Len(audio_queue)
            /\ SubSeq(audio_queue', 1, Len(audio_queue)) = audio_queue]_vars

\* After a stop(), start() was called again: its worker has ended, and
\* the frames left in the frame queue are still there.
C23_Witness ==
    /\ life = "running"
    /\ stop_event
    /\ late[2]
    /\ wpc[2] = "done"
    /\ wpc[1] = "done"
    /\ audio_queue # <<>>

====
